---- MODULE Spec2Model ----
(***************************************************************************)
(* Model of tx-parser-svc: the in-memory Store (MemoryStore), the block    *)
(* ingestion loop (EthParser.StartParsing / processNextBlock) and the      *)
(* query facade (Subscribe / GetTransactions / GetCurrentBlock).           *)
(*                                                                         *)
(* Every Store method that takes m.mu is one atomic action.  The ingestion *)
(* loop is split at every point where another goroutine can run: between   *)
(* two Store calls, around each Chain Client call and around the sleep.    *)
(* Hex strings are sequences of one-character strings so that hexToInt64   *)
(* is computed, not assumed.                                               *)
(***************************************************************************)
EXTENDS Integers, Sequences, FiniteSets, TLC

(***************************************************************************)
(* Bounds                                                                  *)
(***************************************************************************)
\* highest chain tip the Chain Client reports
MaxTip == 4
\* total number of Subscribe calls made by clients
MaxSubscribeCalls == 2

\* goroutines that call StartParsing on the one EthParser
Starters == {"s1", "s2"}

\* addresses clients subscribe to
Addresses == {"0x123", "0xABCDEF"}

(***************************************************************************)
(* Hex strings: strconv.ParseInt(h, 16, 64) and fmt.Sprintf("0x%x", n)     *)
(***************************************************************************)
HexDigits == <<"0", "1", "2", "3", "4", "5", "6", "7",
               "8", "9", "a", "b", "c", "d", "e", "f">>

IsHexDigit(c) == c \in {"0", "1", "2", "3", "4", "5", "6", "7", "8", "9",
                        "a", "b", "c", "d", "e", "f",
                        "A", "B", "C", "D", "E", "F"}

DigitVal(c) ==
    CASE c = "0" -> 0 [] c = "1" -> 1 [] c = "2" -> 2 [] c = "3" -> 3
      [] c = "4" -> 4 [] c = "5" -> 5 [] c = "6" -> 6 [] c = "7" -> 7
      [] c = "8" -> 8 [] c = "9" -> 9
      [] c \in {"a", "A"} -> 10 [] c \in {"b", "B"} -> 11
      [] c \in {"c", "C"} -> 12 [] c \in {"d", "D"} -> 13
      [] c \in {"e", "E"} -> 14 [] c \in {"f", "F"} -> 15

RECURSIVE ParseDigits(_, _)
ParseDigits(s, acc) ==
    IF s = <<>> THEN acc
    ELSE ParseDigits(Tail(s), acc * 16 + DigitVal(Head(s)))

\* strconv.ParseInt(h, 16, 64): optional sign, then one or more hex digits.
\* The range error needs more than 15 digits, which no string here has.
ParseInt(h) ==
    LET signed == h # <<>> /\ Head(h) \in {"+", "-"}
        body   == IF signed THEN Tail(h) ELSE h
    IN  IF body = <<>> \/ \E i \in 1..Len(body) : ~IsHexDigit(body[i])
        THEN [val |-> 0, err |-> TRUE]
        ELSE [val |-> IF signed /\ Head(h) = "-"
                      THEN 0 - ParseDigits(body, 0)
                      ELSE ParseDigits(body, 0),
              err |-> FALSE]

hexToInt64(h) ==
    ParseInt(IF Len(h) > 2 /\ SubSeq(h, 1, 2) = <<"0", "x">>
             THEN SubSeq(h, 3, Len(h))
             ELSE h)

\* variant: -1 instead of 0 for a string that does not parse
hexToInt64OrZero_minus(h) ==
    IF hexToInt64(h).err THEN 0 - 1 ELSE hexToInt64(h).val

hexToInt64OrZero(h) == hexToInt64(h).val

RECURSIVE HexOf(_)
HexOf(n) ==
    IF n < 16 THEN <<HexDigits[n + 1]>>
    ELSE Append(HexOf(n \div 16), HexDigits[(n % 16) + 1])

\* the "0x"-prefixed lowercase convention of the JSON-RPC wire format
FormatHex(n) == <<"0", "x">> \o HexOf(n)

(***************************************************************************)
(* The chain served by the Chain Client.  Blocks 1..3 are the fixture of   *)
(* TestParser; block 4 is added to them: it holds a self-transfer and      *)
(* reports a number that does not parse.                                   *)
(***************************************************************************)
RawTx(hash, from, to, value) ==
    [hash |-> hash, from |-> from, to |-> to, value |-> value]

BlockResponse(number, rawTxs) == [number |-> number, transactions |-> rawTxs]

Chain ==
    << BlockResponse(<<"0", "x", "1">>,
                     << RawTx("0xtx1", "0xABCDEF", "0x123", "0x10"),
                        RawTx("0xtx2", "0x555", "0x666", "0x20") >>),
       BlockResponse(<<"0", "x", "2">>,
                     << RawTx("0xtx3", "0x123", "0xABCDEF", "0x15") >>),
       BlockResponse(<<"0", "x", "3">>, << >>),
       BlockResponse(<<"0", "x", "g">>,
                     << RawTx("0xtx4", "0x123", "0x123", "0x1") >>) >>

\* a height the node has no block for decodes to the zero BlockResponse
GetBlockByNumber(blockNum) ==
    IF blockNum \in 1..Len(Chain) THEN Chain[blockNum]
    ELSE BlockResponse(<< >>, << >>)

\* what BlockNumber() can answer: an error, or a result string
BlockNumberResponses ==
    {[err |-> TRUE, result |-> << >>]}
      \cup {[err |-> FALSE, result |-> FormatHex(n)] : n \in 0..MaxTip}
      \cup {[err |-> FALSE, result |-> h] : h \in {<<"0", "x">>, <<"3">>}}

parseTransactions(block) ==
    [i \in 1..Len(block.transactions) |->
        [hash  |-> block.transactions[i].hash,
         from  |-> block.transactions[i].from,
         to    |-> block.transactions[i].to,
         value |-> block.transactions[i].value,
         block |-> hexToInt64OrZero(block.number)]]

\* height of the chain block that holds the transaction with this hash
HeightOf(hash) ==
    CHOOSE n \in 1..Len(Chain) :
        \E i \in 1..Len(Chain[n].transactions) :
            Chain[n].transactions[i].hash = hash

(***************************************************************************)
(* State                                                                   *)
(***************************************************************************)
VARIABLES
    \* MemoryStore
    CurrentBlock, subscribed, transactions,
    \* EthParser
    parseRunning,
    \* StartParsing / processNextBlock, per calling goroutine
    pc, currentBlock, nextBlock, txs, idx, err,
    \* environment
    ctxDone, subCalls,
    \* history
    subResults, subscribedAt, isSubLog, preSub, clean, calls, minTip,
    iterStart, iterFail, iterAppends, pendingRetry,
    advAfterCancel,
    \* p.mu and m.mu, and the lock each loop goroutine holds
    pmu, mmu, heldAt,
    \* goroutines calling the Store directly
    dpc,
    \* the caller of the read queries
    rd,
    \* the HTTP adapter
    http,
    \* chain tips reported by BlockNumber()
    maxTip, lastTip

storeVars == <<CurrentBlock, subscribed, transactions>>
loopVars  == <<pc, currentBlock, nextBlock, txs, idx, err>>
subHist   == <<subResults, subscribedAt>>
detHist   == <<preSub, clean, calls, minTip>>
iterHist  == <<iterStart, iterFail, iterAppends>>

\* everything but the locks, the callers and the records of tips
progVars == <<storeVars, parseRunning, loopVars, ctxDone, subCalls,
              subHist, isSubLog, detHist, iterHist, pendingRetry,
              advAfterCancel>>

lockVars  == <<pmu, mmu, heldAt>>
tipVars   == <<maxTip, lastTip>>
auxVars   == <<lockVars, dpc, rd, http, tipVars>>

vars == <<storeVars, parseRunning, loopVars, ctxDone, subCalls,
          subHist, isSubLog, detHist, iterHist, pendingRetry, advAfterCancel,
          auxVars>>

\* main starts the loop once
MainLoop == "s1"

\* goroutines that call the Store without going through EthParser
Callers == {"d1"}

\* a sync.RWMutex nobody holds
Unlocked == [w |-> "none", r |-> {}]

\* a caller that is not inside a Store method
Idle == [op |-> "idle", address |-> "", val |-> 0]

\* no request handled yet
NoRequest == [path |-> "", method |-> "", decoded |-> FALSE, given |-> "",
              status |-> 0, called |-> "", address |-> ""]

\* no read query made yet
NoRead == [op |-> "none", address |-> "", block |-> 0, flag |-> FALSE,
           list |-> << >>, shared |-> FALSE]

LoopPcs == {"loop", "getCurrent", "blockNumber", "fetch",
            "isSubFrom", "addFrom", "isSubTo", "addTo",
            "setBlock", "sleep"}

Init ==
    /\ CurrentBlock = 0
    /\ subscribed = {}
    /\ transactions = [a \in {} |-> << >>]
    /\ parseRunning = FALSE
    /\ pc = [s \in Starters |-> "idle"]
    /\ currentBlock = [s \in Starters |-> 0]
    /\ nextBlock = [s \in Starters |-> 0]
    /\ txs = [s \in Starters |-> << >>]
    /\ idx = [s \in Starters |-> 0]
    /\ err = [s \in Starters |-> "nil"]
    /\ ctxDone = [s \in Starters |-> FALSE]
    /\ subCalls = 0
    /\ subResults = [a \in Addresses |-> << >>]
    /\ subscribedAt = [a \in Addresses |-> -1]
    /\ isSubLog = {}
    /\ preSub = {}
    /\ clean = TRUE
    /\ calls = 0
    /\ minTip = MaxTip + 1
    /\ iterStart = 0
    /\ iterFail = FALSE
    /\ iterAppends = 0
    /\ pendingRetry = 0
    /\ advAfterCancel = 0
    /\ pmu = Unlocked
    /\ mmu = Unlocked
    /\ heldAt = [s \in Starters |-> "none"]
    /\ dpc = [d \in Callers |-> Idle]
    /\ rd = NoRead
    /\ http = NoRequest
    /\ maxTip = 0
    /\ lastTip = -1

(***************************************************************************)
(* MemoryStore.  Each method runs under m.mu, so each is one step.         *)
(***************************************************************************)
IsSubscribed(address) == address \in subscribed

\* variant: Subscribe reports a new registration on every call
SubscribeResult_always(address) == TRUE

\* the result of Subscribe: true on first registration only
SubscribeResult(address) == address \notin subscribed

\* variant: a second Subscribe of an address takes it out of the set
SubscribeSet_toggle(address) ==
    IF address \in subscribed THEN subscribed \ {address}
    ELSE subscribed \cup {address}

\* the subscribed map after Subscribe(address)
SubscribeSet(address) == subscribed \cup {address}

\* variant: the sequence is emptied on every Subscribe
SubscribeTransactions_reset(address) ==
    [a \in DOMAIN transactions \cup {address} |->
        IF a = address THEN << >> ELSE transactions[a]]

\* the transactions map after Subscribe(address)
SubscribeTransactions(address) ==
    IF address \in subscribed THEN transactions
    ELSE [a \in DOMAIN transactions \cup {address} |->
             IF a = address THEN << >> ELSE transactions[a]]

\* variant: the sequence is replaced by the new transaction
AddTransaction_overwrite(address, tx) ==
    IF address \in subscribed
    THEN [a \in DOMAIN transactions \cup {address} |->
             IF a = address THEN <<tx>> ELSE transactions[a]]
    ELSE transactions

\* variant: the subscription test is inverted, nothing is kept for a
\* watched address
AddTransaction_dropped(address, tx) ==
    IF address \notin subscribed
    THEN [a \in DOMAIN transactions \cup {address} |->
             IF a = address
             THEN Append(IF a \in DOMAIN transactions
                         THEN transactions[a] ELSE << >>, tx)
             ELSE transactions[a]]
    ELSE transactions

\* the transactions map after AddTransaction(address, tx)
AddTransaction(address, tx) ==
    IF address \in subscribed
    THEN [a \in DOMAIN transactions \cup {address} |->
             IF a = address
             THEN Append(IF a \in DOMAIN transactions
                         THEN transactions[a] ELSE << >>, tx)
             ELSE transactions[a]]
    ELSE transactions

\* the copy GetTransactions returns
GetTransactions(address) ==
    IF address \in DOMAIN transactions
    THEN [i \in 1..Len(transactions[address]) |-> transactions[address][i]]
    ELSE << >>

\* variant: GetTransactions returns the stored slice itself
GetTransactionsShared_direct(address) == address \in DOMAIN transactions

\* whether the slice GetTransactions returns shares its array with the
\* Store: no, lines 80-82 copy it and line 76 makes a new one
GetTransactionsShared(address) == FALSE

\* EthParser.GetCurrentBlock, under p.mu.RLock
GetCurrentBlock == CurrentBlock

(***************************************************************************)
(* Clients of the facade                                                   *)
(***************************************************************************)
\* MemoryStore.Subscribe with its effect on the Store and on the call history
SubscribeCall(address) ==
    /\ subCalls < MaxSubscribeCalls
    /\ subCalls' = subCalls + 1
    /\ subscribed' = SubscribeSet(address)
    /\ transactions' = SubscribeTransactions(address)
    /\ subResults' = [subResults EXCEPT
                         ![address] = Append(@, SubscribeResult(address))]
    /\ subscribedAt' = [subscribedAt EXCEPT
                           ![address] = IF @ = -1 THEN CurrentBlock ELSE @]
    /\ UNCHANGED <<CurrentBlock, parseRunning, loopVars, ctxDone, isSubLog,
                   detHist, iterHist, pendingRetry, advAfterCancel>>

\* EthParser.Subscribe, seen as one step
Subscribe(address) == SubscribeCall(address) /\ UNCHANGED auxVars

\* the owner of the context of starter s cancels it
Cancel(s) ==
    /\ ~ctxDone[s]
    /\ pc[s] \notin {"rejected", "returned"}
    /\ ctxDone' = [ctxDone EXCEPT ![s] = TRUE]
    /\ UNCHANGED <<storeVars, parseRunning, loopVars, subCalls, subHist,
                   isSubLog, detHist, iterHist, pendingRetry, advAfterCancel>>
    /\ UNCHANGED auxVars

(***************************************************************************)
(* EthParser.StartParsing                                                  *)
(***************************************************************************)
\* variant: parseRunning is set but never tested
StartParsing_noGuard(s) ==
    /\ pc[s] = "idle"
    /\ parseRunning' = TRUE
    /\ pc' = [pc EXCEPT ![s] = "loop"]
    /\ UNCHANGED <<storeVars, currentBlock, nextBlock, txs, idx, err,
                   ctxDone, subCalls, subHist, isSubLog, detHist, iterHist,
                   pendingRetry, advAfterCancel>>
    /\ UNCHANGED auxVars

\* lines 52-59: the test and set of parseRunning under p.mu
StartParsing(s) ==
    /\ pc[s] = "idle"
    /\ IF parseRunning
       THEN /\ pc' = [pc EXCEPT ![s] = "rejected"]
            /\ UNCHANGED parseRunning
       ELSE /\ parseRunning' = TRUE
            /\ pc' = [pc EXCEPT ![s] = "loop"]
    /\ UNCHANGED <<storeVars, currentBlock, nextBlock, txs, idx, err,
                   ctxDone, subCalls, subHist, isSubLog, detHist, iterHist,
                   pendingRetry, advAfterCancel>>
    /\ UNCHANGED auxVars

\* variant: the loop clears parseRunning when it stops
LoopTop_clears(s) ==
    /\ pc[s] = "loop"
    /\ IF ctxDone[s]
       THEN /\ pc' = [pc EXCEPT ![s] = "returned"]
            /\ parseRunning' = FALSE
       ELSE /\ pc' = [pc EXCEPT ![s] = "getCurrent"]
            /\ UNCHANGED parseRunning
    /\ UNCHANGED <<storeVars, currentBlock, nextBlock, txs,
                   idx, err, ctxDone, subCalls, subHist, isSubLog, detHist,
                   iterHist, pendingRetry, advAfterCancel>>
    /\ UNCHANGED auxVars

\* variant: the loop has no ctx.Done() case
LoopTop_ignoreCtx(s) ==
    /\ pc[s] = "loop"
    /\ pc' = [pc EXCEPT ![s] = "getCurrent"]
    /\ UNCHANGED <<storeVars, parseRunning, currentBlock, nextBlock, txs,
                   idx, err, ctxDone, subCalls, subHist, isSubLog, detHist,
                   iterHist, pendingRetry, advAfterCancel>>
    /\ UNCHANGED auxVars

\* lines 63-69: the select at the top of every iteration
LoopTop(s) ==
    /\ pc[s] = "loop"
    /\ IF ctxDone[s]
       THEN pc' = [pc EXCEPT ![s] = "returned"]
       ELSE pc' = [pc EXCEPT ![s] = "getCurrent"]
    /\ UNCHANGED <<storeVars, parseRunning, currentBlock, nextBlock, txs,
                   idx, err, ctxDone, subCalls, subHist, isSubLog, detHist,
                   iterHist, pendingRetry, advAfterCancel>>
    /\ UNCHANGED auxVars

\* line 73: time.Sleep(pollInterval), after the error was logged
Sleep(s) ==
    /\ pc[s] = "sleep"
    /\ pc' = [pc EXCEPT ![s] = "loop"]
    /\ err' = [err EXCEPT ![s] = "nil"]
    /\ iterStart' = 0
    /\ iterFail' = FALSE
    /\ iterAppends' = 0
    /\ UNCHANGED <<storeVars, parseRunning, currentBlock, nextBlock, txs,
                   idx, ctxDone, subCalls, subHist, isSubLog, detHist,
                   pendingRetry, advAfterCancel>>
    /\ UNCHANGED auxVars

(***************************************************************************)
(* EthParser.processNextBlock                                              *)
(***************************************************************************)
Min(a, b) == IF a < b THEN a ELSE b

\* variant: the next height is off by one
NextBlock_skip(c) == c + 2

\* line 101
NextBlock(c) == c + 1

\* the locals of processNextBlock when it returns e; the caller then sleeps
Return(s, e) ==
    /\ pc' = [pc EXCEPT ![s] = "sleep"]
    /\ err' = [err EXCEPT ![s] = e]
    /\ currentBlock' = [currentBlock EXCEPT ![s] = 0]
    /\ nextBlock' = [nextBlock EXCEPT ![s] = 0]
    /\ txs' = [txs EXCEPT ![s] = << >>]
    /\ idx' = [idx EXCEPT ![s] = 0]

\* The run is followed call by call (preSub, calls, minTip) for as long as
\* the Chain Client has not failed and every tip it reported is at least the
\* number of calls made; after that the three stay at fixed values.
Followed(ok, n, tip) ==
    IF clean /\ ok /\ n <= tip
    THEN /\ clean' = TRUE
         /\ calls' = n
         /\ minTip' = tip
         /\ UNCHANGED preSub
    ELSE /\ clean' = FALSE
         /\ calls' = 0
         /\ minTip' = 0
         /\ preSub' = {}

\* line 80: currentBlock := p.GetCurrentBlock()
GetCurrentStep(s) ==
    /\ pc[s] = "getCurrent"
    /\ currentBlock' = [currentBlock EXCEPT ![s] = GetCurrentBlock]
    /\ pc' = [pc EXCEPT ![s] = "blockNumber"]
    /\ iterStart' = CurrentBlock
    /\ iterFail' = FALSE
    /\ iterAppends' = 0
    /\ preSub' = IF clean /\ calls = 0 THEN subscribed ELSE preSub
    /\ UNCHANGED <<storeVars, parseRunning, nextBlock, txs, idx, err,
                   ctxDone, subCalls, subHist, isSubLog, clean, calls,
                   minTip, pendingRetry, advAfterCancel>>
    /\ UNCHANGED auxVars

\* variant: the loop stops only when the cursor is above the tip
TipCheck_strict(s, resp) ==
    LET latestBlockDecimal == hexToInt64(resp.result) IN
    IF resp.err THEN Return(s, "blockNumber")
    ELSE IF latestBlockDecimal.err THEN Return(s, "hex")
    ELSE IF currentBlock[s] > latestBlockDecimal.val THEN Return(s, "nil")
    ELSE /\ nextBlock' = [nextBlock EXCEPT ![s] = NextBlock(currentBlock[s])]
         /\ pc' = [pc EXCEPT ![s] = "fetch"]
         /\ UNCHANGED <<currentBlock, txs, idx, err>>

\* lines 83-99 for the answer resp of BlockNumber()
TipCheck(s, resp) ==
    LET latestBlockDecimal == hexToInt64(resp.result) IN
    IF resp.err THEN Return(s, "blockNumber")
    ELSE IF latestBlockDecimal.err THEN Return(s, "hex")
    ELSE IF currentBlock[s] >= latestBlockDecimal.val THEN Return(s, "nil")
    ELSE /\ nextBlock' = [nextBlock EXCEPT ![s] = NextBlock(currentBlock[s])]
         /\ pc' = [pc EXCEPT ![s] = "fetch"]
         /\ UNCHANGED <<currentBlock, txs, idx, err>>

\* lines 83-101 when BlockNumber() answers resp
BlockNumberWith(s, resp) ==
    LET failed == resp.err \/ hexToInt64(resp.result).err IN
    /\ pc[s] = "blockNumber"
    /\ TipCheck(s, resp)
    /\ iterFail' = failed
    /\ pendingRetry' = IF failed THEN iterStart + 1 ELSE pendingRetry
    /\ Followed(~failed,
                IF pc'[s] = "sleep" THEN calls + 1 ELSE calls,
                Min(minTip, hexToInt64(resp.result).val))
    /\ UNCHANGED <<storeVars, parseRunning, ctxDone, subCalls, subHist,
                   isSubLog, iterStart, iterAppends, advAfterCancel>>

BlockNumberStep(s) ==
    /\ \E resp \in BlockNumberResponses : BlockNumberWith(s, resp)
    /\ UNCHANGED auxVars

\* variant: the block after nextBlock is requested
FetchBlock_ahead(s, ok) ==
    IF ~ok THEN Return(s, "fetch")
    ELSE LET parsed == parseTransactions(GetBlockByNumber(nextBlock[s] + 1)) IN
         /\ txs' = [txs EXCEPT ![s] = parsed]
         /\ idx' = [idx EXCEPT ![s] = 1]
         /\ pc' = [pc EXCEPT ![s] =
                      IF parsed = << >> THEN "setBlock" ELSE "isSubFrom"]
         /\ UNCHANGED <<currentBlock, nextBlock, err>>

\* variant: block currentBlock is requested instead of nextBlock
FetchBlock_prev(s, ok) ==
    IF ~ok THEN Return(s, "fetch")
    ELSE LET parsed == parseTransactions(GetBlockByNumber(currentBlock[s])) IN
         /\ txs' = [txs EXCEPT ![s] = parsed]
         /\ idx' = [idx EXCEPT ![s] = 1]
         /\ pc' = [pc EXCEPT ![s] =
                      IF parsed = << >> THEN "setBlock" ELSE "isSubFrom"]
         /\ UNCHANGED <<currentBlock, nextBlock, err>>

\* variant: the error of GetBlockByNumber is dropped and the zero
\* BlockResponse it came with is processed
FetchBlock_ignoreErr(s, ok) ==
    LET parsed == IF ok THEN parseTransactions(GetBlockByNumber(nextBlock[s]))
                  ELSE << >> IN
    /\ txs' = [txs EXCEPT ![s] = parsed]
    /\ idx' = [idx EXCEPT ![s] = 1]
    /\ pc' = [pc EXCEPT ![s] =
                 IF parsed = << >> THEN "setBlock" ELSE "isSubFrom"]
    /\ UNCHANGED <<currentBlock, nextBlock, err>>

\* lines 102-107 for the outcome of GetBlockByNumber(nextBlock)
FetchBlock(s, ok) ==
    IF ~ok THEN Return(s, "fetch")
    ELSE LET parsed == parseTransactions(GetBlockByNumber(nextBlock[s])) IN
         /\ txs' = [txs EXCEPT ![s] = parsed]
         /\ idx' = [idx EXCEPT ![s] = 1]
         /\ pc' = [pc EXCEPT ![s] =
                      IF parsed = << >> THEN "setBlock" ELSE "isSubFrom"]
         /\ UNCHANGED <<currentBlock, nextBlock, err>>

FetchStep(s) ==
    /\ pc[s] = "fetch"
    /\ \E ok \in BOOLEAN :
         /\ FetchBlock(s, ok)
         /\ iterFail' = ~ok
         /\ pendingRetry' = IF ok THEN 0 ELSE iterStart + 1
         /\ Followed(ok, calls, minTip)
    /\ UNCHANGED <<storeVars, parseRunning, ctxDone, subCalls, subHist,
                   isSubLog, iterStart, iterAppends, advAfterCancel>>
    /\ UNCHANGED auxVars

(***************************************************************************)
(* EthParser.storeTransactions: four Store calls per transaction           *)
(***************************************************************************)
\* line 138: for _, tx := range txs
CurTx(s) == txs[s][idx[s]]

\* where the range loop goes after the transaction at idx[s]
AfterTx(s) ==
    /\ idx' = [idx EXCEPT ![s] = @ + 1]
    /\ pc' = [pc EXCEPT ![s] =
                 IF idx[s] < Len(txs[s]) THEN "isSubFrom" ELSE "setBlock"]

\* line 139: if p.store.IsSubscribed(tx.From)
IsSubFromStep(s) ==
    /\ pc[s] = "isSubFrom"
    /\ pc' = [pc EXCEPT ![s] =
                 IF IsSubscribed(CurTx(s).from) THEN "addFrom" ELSE "isSubTo"]
    /\ isSubLog' = isSubLog \cup
           {<<CurTx(s).from, CurTx(s).hash, IsSubscribed(CurTx(s).from)>>}
    /\ UNCHANGED <<storeVars, parseRunning, currentBlock, nextBlock, txs,
                   idx, err, ctxDone, subCalls, subHist, detHist, iterHist,
                   pendingRetry, advAfterCancel>>
    /\ UNCHANGED auxVars

\* variant: the last transaction of the block is stored for every sender
StoreFrom_last(s) == AddTransaction(CurTx(s).from, txs[s][Len(txs[s])])

\* line 140: the transactions map after p.store.AddTransaction(tx.From, tx)
StoreFrom(s) == AddTransaction(CurTx(s).from, CurTx(s))

AddFromStep(s) ==
    /\ pc[s] = "addFrom"
    /\ transactions' = StoreFrom(s)
    /\ iterAppends' = IF transactions' = transactions THEN iterAppends
                      ELSE iterAppends + 1
    /\ pc' = [pc EXCEPT ![s] = "isSubTo"]
    /\ UNCHANGED <<CurrentBlock, subscribed, parseRunning, currentBlock,
                   nextBlock, txs, idx, err, ctxDone, subCalls, subHist,
                   isSubLog, detHist, iterStart, iterFail, pendingRetry,
                   advAfterCancel>>
    /\ UNCHANGED auxVars

\* line 142: if p.store.IsSubscribed(tx.To)
IsSubToStep(s) ==
    /\ pc[s] = "isSubTo"
    /\ IF IsSubscribed(CurTx(s).to)
       THEN /\ pc' = [pc EXCEPT ![s] = "addTo"]
            /\ UNCHANGED idx
       ELSE AfterTx(s)
    /\ isSubLog' = isSubLog \cup
           {<<CurTx(s).to, CurTx(s).hash, IsSubscribed(CurTx(s).to)>>}
    /\ UNCHANGED <<storeVars, parseRunning, currentBlock, nextBlock, txs,
                   err, ctxDone, subCalls, subHist, detHist, iterHist,
                   pendingRetry, advAfterCancel>>
    /\ UNCHANGED auxVars

\* line 143: the transactions map after p.store.AddTransaction(tx.To, tx)
StoreTo(s) == AddTransaction(CurTx(s).to, CurTx(s))

AddToStep(s) ==
    /\ pc[s] = "addTo"
    /\ transactions' = StoreTo(s)
    /\ iterAppends' = IF transactions' = transactions THEN iterAppends
                      ELSE iterAppends + 1
    /\ AfterTx(s)
    /\ UNCHANGED <<CurrentBlock, subscribed, parseRunning, currentBlock,
                   nextBlock, txs, err, ctxDone, subCalls, subHist,
                   isSubLog, detHist, iterStart, iterFail, pendingRetry,
                   advAfterCancel>>
    /\ UNCHANGED auxVars

\* lines 110-118: p.store.SetCurrentBlock(nextBlock) under p.mu, return nil
SetBlockStep(s) ==
    /\ pc[s] = "setBlock"
    /\ CurrentBlock' = nextBlock[s]
    /\ Return(s, "nil")
    /\ Followed(TRUE, calls + 1, minTip)
    /\ advAfterCancel' = IF ctxDone[s] /\ advAfterCancel < 2
                         THEN advAfterCancel + 1 ELSE advAfterCancel
    /\ UNCHANGED <<subscribed, transactions, parseRunning, ctxDone, subCalls,
                   subHist, isSubLog, iterHist, pendingRetry>>
    /\ UNCHANGED auxVars

(***************************************************************************)
(* Specification                                                           *)
(***************************************************************************)
LoopStep(s) ==
    \/ LoopTop(s)
    \/ GetCurrentStep(s)
    \/ BlockNumberStep(s)
    \/ FetchStep(s)
    \/ IsSubFromStep(s)
    \/ AddFromStep(s)
    \/ IsSubToStep(s)
    \/ AddToStep(s)
    \/ SetBlockStep(s)
    \/ Sleep(s)

Next ==
    \/ \E a \in Addresses : Subscribe(a)
    \/ \E s \in Starters : Cancel(s)
    \/ \E s \in Starters : StartParsing(s)
    \/ \E s \in Starters : LoopStep(s)

Spec == Init /\ [][Next]_vars

\* the scheduler keeps running the goroutine of the loop; Chain Client
\* calls and the sleep return
FairSpec == Spec /\ \A s \in Starters : WF_vars(LoopStep(s))

(***************************************************************************)
(* The loop with the tips BlockNumber() reported kept on record: lastTip   *)
(* is latestBlockDecimal of the last call (-1 when the call or the parse   *)
(* failed), maxTip the highest one so far.                                 *)
(***************************************************************************)
BlockNumberSeen(s) ==
    /\ \E resp \in BlockNumberResponses :
         LET latestBlockDecimal == hexToInt64(resp.result) IN
         /\ BlockNumberWith(s, resp)
         /\ lastTip' = IF resp.err \/ latestBlockDecimal.err
                       THEN 0 - 1 ELSE latestBlockDecimal.val
         /\ maxTip' = IF resp.err \/ latestBlockDecimal.err
                         \/ latestBlockDecimal.val <= maxTip
                      THEN maxTip ELSE latestBlockDecimal.val
    /\ UNCHANGED <<lockVars, dpc, rd, http>>

TipStep(s) ==
    \/ LoopTop(s)
    \/ GetCurrentStep(s)
    \/ BlockNumberSeen(s)
    \/ FetchStep(s)
    \/ IsSubFromStep(s)
    \/ AddFromStep(s)
    \/ IsSubToStep(s)
    \/ AddToStep(s)
    \/ SetBlockStep(s)
    \/ Sleep(s)

TipNext ==
    \/ \E a \in Addresses : Subscribe(a)
    \/ \E s \in Starters : StartParsing(s)
    \/ \E s \in Starters : TipStep(s)

TipSpec == Init /\ [][TipNext]_vars

(***************************************************************************)
(* A restart: main's loop is started and cancelled, and once it has        *)
(* returned StartParsing is called again on the same EthParser with a      *)
(* context that nobody cancels.                                            *)
(***************************************************************************)
Restart(t) ==
    /\ pc[MainLoop] = "returned"
    /\ ~ctxDone[t]
    /\ StartParsing(t)

RestartNext ==
    \/ \E a \in Addresses : Subscribe(a)
    \/ StartParsing(MainLoop)
    \/ Cancel(MainLoop)
    \/ \E s \in Starters : LoopStep(s)
    \/ \E t \in Starters \ {MainLoop} : Restart(t)

RestartSpec == Init /\ [][RestartNext]_vars

(***************************************************************************)
(* The read queries of the facade, made by a caller that runs next to the  *)
(* loop.  rd is what the last query returned to that caller.               *)
(***************************************************************************)
QueryCurrentBlock ==
    /\ rd' = [NoRead EXCEPT !.op = "GetCurrentBlock", !.block = GetCurrentBlock]
    /\ UNCHANGED <<progVars, lockVars, dpc, http, tipVars>>

QueryIsSubscribed(address) ==
    /\ rd' = [NoRead EXCEPT !.op = "IsSubscribed", !.address = address,
                            !.flag = IsSubscribed(address)]
    /\ UNCHANGED <<progVars, lockVars, dpc, http, tipVars>>

QueryTransactions(address) ==
    /\ rd' = [NoRead EXCEPT !.op = "GetTransactions", !.address = address,
                            !.list = GetTransactions(address),
                            !.shared = GetTransactionsShared(address)]
    /\ UNCHANGED <<progVars, lockVars, dpc, http, tipVars>>

\* what the caller writes over the first element of the list it was given
Scribble == [hash |-> "", from |-> "", to |-> "", value |-> "", block |-> 0]

\* the caller overwrites the first element of the returned list; the write
\* lands in the Store when the list shares its array with the Store
MutateResult ==
    /\ rd.op = "GetTransactions"
    /\ Len(rd.list) >= 1
    /\ rd' = [NoRead EXCEPT !.op = "mutated", !.address = rd.address]
    /\ transactions' = IF rd.shared
                       THEN [transactions EXCEPT ![rd.address][1] = Scribble]
                       ELSE transactions
    /\ UNCHANGED <<CurrentBlock, subscribed, parseRunning, loopVars, ctxDone,
                   subCalls, subHist, isSubLog, detHist, iterHist,
                   pendingRetry, advAfterCancel, lockVars, dpc, http, tipVars>>

QueryNext ==
    \/ \E a \in Addresses : Subscribe(a)
    \/ StartParsing(MainLoop)
    \/ LoopStep(MainLoop)
    \/ QueryCurrentBlock
    \/ \E a \in Addresses : QueryIsSubscribed(a)
    \/ \E a \in Addresses : QueryTransactions(a)
    \/ MutateResult

QuerySpec == Init /\ [][QueryNext]_vars

(***************************************************************************)
(* The HTTP adapter, wired as in main: one loop goroutine and the three    *)
(* handlers.  http is the last request as the handler read it (decoded,    *)
(* given), the status it answered and the call it made on the parser       *)
(* (called, address).                                                      *)
(***************************************************************************)
Methods == {"GET", "POST"}

\* request bodies: not JSON, an object without "address", an object with it
Bodies ==
    {[kind |-> "invalid", address |-> ""], [kind |-> "noField", address |-> ""]}
      \cup {[kind |-> "field", address |-> a] : a \in Addresses \cup {""}}

\* json.NewDecoder(r.Body).Decode(&req): a missing field leaves Address ""
Decode(body) ==
    [err |-> body.kind = "invalid",
     Address |-> IF body.kind = "field" THEN body.address ELSE ""]

\* query strings: without "address", or with it
Queries ==
    {[has |-> FALSE, address |-> ""]}
      \cup {[has |-> TRUE, address |-> a] : a \in Addresses \cup {""}}

\* r.URL.Query().Get("address")
QueryGet(q) == IF q.has THEN q.address ELSE ""

\* variant: the handler does not test the address
AddressMissing_unchecked(address) == FALSE

\* lines 60 and 76: the test that answers "address is required"
AddressMissing(address) == address = ""

Answer(path, method, decoded, given, status, called, address) ==
    http' = [path |-> path, method |-> method, decoded |-> decoded,
             given |-> given, status |-> status, called |-> called,
             address |-> address]

handleCurrentBlock(method) ==
    /\ IF method # "GET"
       THEN Answer("/current-block", method, FALSE, "", 405, "", "")
       ELSE Answer("/current-block", method, FALSE, "", 200, "GetCurrentBlock", "")
    /\ UNCHANGED <<progVars, lockVars, dpc, rd, tipVars>>

\* the Store after s.parser.Subscribe(address), for any string
SubscribeAny(address) ==
    /\ subCalls < MaxSubscribeCalls
    /\ IF address \in Addresses
       THEN SubscribeCall(address)
       ELSE /\ subCalls' = subCalls + 1
            /\ subscribed' = SubscribeSet(address)
            /\ transactions' = SubscribeTransactions(address)
            /\ UNCHANGED <<CurrentBlock, parseRunning, loopVars, ctxDone,
                           subHist, isSubLog, detHist, iterHist,
                           pendingRetry, advAfterCancel>>

handleSubscribe(method, body) ==
    LET req == Decode(body) IN
    /\ IF method # "POST"
       THEN /\ Answer("/subscribe", method, FALSE, "", 405, "", "")
            /\ UNCHANGED progVars
       ELSE IF req.err
       THEN /\ Answer("/subscribe", method, FALSE, "", 400, "", "")
            /\ UNCHANGED progVars
       ELSE IF AddressMissing(req.Address)
       THEN /\ Answer("/subscribe", method, TRUE, req.Address, 400, "", "")
            /\ UNCHANGED progVars
       ELSE /\ SubscribeAny(req.Address)
            /\ Answer("/subscribe", method, TRUE, req.Address, 200,
                      "Subscribe", req.Address)
    /\ UNCHANGED <<lockVars, dpc, rd, tipVars>>

handleGetTransactions(method, q) ==
    LET address == QueryGet(q) IN
    /\ IF method # "GET"
       THEN Answer("/transactions", method, FALSE, "", 405, "", "")
       ELSE IF AddressMissing(address)
       THEN Answer("/transactions", method, TRUE, address, 400, "", "")
       ELSE Answer("/transactions", method, TRUE, address, 200,
                   "GetTransactions", address)
    /\ UNCHANGED <<progVars, lockVars, dpc, rd, tipVars>>

HttpNext ==
    \/ StartParsing(MainLoop)
    \/ LoopStep(MainLoop)
    \/ \E m \in Methods : handleCurrentBlock(m)
    \/ \E m \in Methods : \E body \in Bodies : handleSubscribe(m, body)
    \/ \E m \in Methods : \E q \in Queries : handleGetTransactions(m, q)

HttpSpec == Init /\ [][HttpNext]_vars

(***************************************************************************)
(* The locks.  EthParser.mu is taken by StartParsing, GetCurrentBlock and  *)
(* around SetCurrentBlock; MemoryStore.mu by Subscribe, IsSubscribed,      *)
(* AddTransaction and GetTransactions.  MemoryStore.GetCurrentBlock and    *)
(* MemoryStore.SetCurrentBlock take no lock.  Here every method is three   *)
(* steps: lock, body, unlock.                                              *)
(***************************************************************************)
\* the positions of the loop at which the next call takes a lock
LockPcs == {"getCurrent", "isSubFrom", "addFrom", "isSubTo", "addTo", "setBlock"}

\* the lock that call takes: "p" is EthParser.mu, "m" is MemoryStore.mu
LockOf(p) == IF p \in {"getCurrent", "setBlock"} THEN "p" ELSE "m"

\* RLock ("r") or Lock ("w")
ModeOf(p) == IF p \in {"getCurrent", "isSubFrom", "isSubTo"} THEN "r" ELSE "w"

\* sync.RWMutex: RLock waits for the writer, Lock for everybody
CanLock(mu, mode) ==
    IF mode = "r" THEN mu.w = "none" ELSE mu.w = "none" /\ mu.r = {}

Locked(mu, mode, t) ==
    IF mode = "r" THEN [mu EXCEPT !.r = @ \cup {t}] ELSE [mu EXCEPT !.w = t]

Released(mu, t) ==
    [w |-> IF mu.w = t THEN "none" ELSE mu.w, r |-> mu.r \ {t}]

\* p.mu.RLock(), p.mu.Lock(), m.mu.RLock() or m.mu.Lock() of the loop
Acquire(s) ==
    /\ pc[s] \in LockPcs
    /\ heldAt[s] = "none"
    /\ IF LockOf(pc[s]) = "p"
       THEN /\ CanLock(pmu, ModeOf(pc[s]))
            /\ pmu' = Locked(pmu, ModeOf(pc[s]), s)
            /\ mmu' = mmu
       ELSE /\ CanLock(mmu, ModeOf(pc[s]))
            /\ mmu' = Locked(mmu, ModeOf(pc[s]), s)
            /\ pmu' = pmu
    /\ heldAt' = [heldAt EXCEPT ![s] = pc[s]]
    /\ UNCHANGED <<progVars, dpc, rd, http, tipVars>>

\* the Unlock or deferred RUnlock that ends the method
Release(s) ==
    /\ heldAt[s] # "none"
    /\ pc[s] # heldAt[s]
    /\ pmu' = Released(pmu, s)
    /\ mmu' = Released(mmu, s)
    /\ heldAt' = [heldAt EXCEPT ![s] = "none"]
    /\ UNCHANGED <<progVars, dpc, rd, http, tipVars>>

\* the method the loop was in has returned: its Unlock has run
HoldsNone_leak(s) == TRUE

HoldsNone(s) == heldAt[s] = "none"

\* the body of a method of the loop, between its lock and its unlock
RunLocked(s) ==
    /\ pc[s] \in LockPcs
    /\ heldAt[s] = pc[s]
    /\ LoopStep(s)

\* the statements of the loop outside every method that locks: the test of
\* ctx, BlockNumber(), GetBlockByNumber() and time.Sleep
RunUnlocked(s) ==
    /\ pc[s] \notin LockPcs
    /\ HoldsNone(s)
    /\ LoopStep(s)

\* StartParsing holds p.mu from line 52 to line 54 or 58
StartLocked(s) ==
    /\ CanLock(pmu, "w")
    /\ StartParsing(s)

\* what a goroutine can call on the Store directly
DirectOps ==
    {[op |-> "GetCurrentBlock", address |-> "", val |-> 0]} \cup
    {[op |-> o, address |-> a, val |-> 0] :
        o \in {"Subscribe", "GetTransactions"}, a \in Addresses}

\* a goroutine enters a Store method: m.mu.Lock() in Subscribe, m.mu.RLock()
\* in GetTransactions, nothing in GetCurrentBlock
DirectBegin(d, call) ==
    /\ dpc[d].op = "idle"
    /\ CASE call.op = "Subscribe" ->
              /\ subCalls < MaxSubscribeCalls
              /\ CanLock(mmu, "w")
              /\ mmu' = Locked(mmu, "w", d)
         [] call.op = "GetTransactions" ->
              /\ CanLock(mmu, "r")
              /\ mmu' = Locked(mmu, "r", d)
         [] OTHER -> mmu' = mmu
    /\ dpc' = [dpc EXCEPT ![d] = call]
    /\ UNCHANGED <<progVars, pmu, heldAt, rd, http, tipVars>>

\* the values an unlocked read of m.CurrentBlock can return: the stored one,
\* or the one a SetCurrentBlock in progress is writing
CurrentBlockReads ==
    {CurrentBlock} \cup
    {nextBlock[s] : s \in {t \in Starters : heldAt[t] = "setBlock" /\ pc[t] = "setBlock"}}

\* the body of the method and its return
DirectEnd(d) ==
    /\ dpc[d].op # "idle"
    /\ CASE dpc[d].op = "Subscribe" ->
              /\ SubscribeCall(dpc[d].address)
              /\ dpc' = [dpc EXCEPT ![d] = Idle]
         [] dpc[d].op = "GetTransactions" ->
              /\ dpc' = [dpc EXCEPT ![d] = Idle]
              /\ UNCHANGED progVars
         [] OTHER ->
              /\ \E v \in CurrentBlockReads :
                    dpc' = [dpc EXCEPT ![d] = [Idle EXCEPT !.val = v]]
              /\ UNCHANGED progVars
    /\ mmu' = Released(mmu, d)
    /\ UNCHANGED <<pmu, heldAt, rd, http, tipVars>>

LockNext ==
    \/ StartLocked(MainLoop)
    \/ Acquire(MainLoop)
    \/ RunLocked(MainLoop)
    \/ Release(MainLoop)
    \/ RunUnlocked(MainLoop)
    \/ \E d \in Callers : \E call \in DirectOps : DirectBegin(d, call)
    \/ \E d \in Callers : DirectEnd(d)

LockSpec == Init /\ [][LockNext]_vars

(***************************************************************************)
(* Properties                                                              *)
(***************************************************************************)
\* the hashes GetTransactions(a) returns
StoredHashes(a) ==
    {GetTransactions(a)[i].hash : i \in 1..Len(GetTransactions(a))}

\* every transaction of block h was checked against both of its addresses
\* and is stored for each address that was subscribed at its check
Complete(h) ==
    \A i \in 1..Len(GetBlockByNumber(h).transactions) :
        LET t == GetBlockByNumber(h).transactions[i] IN
        \A a \in {t.from, t.to} :
            /\ \E r \in BOOLEAN : <<a, t.hash, r>> \in isSubLog
            /\ <<a, t.hash, TRUE>> \in isSubLog => t.hash \in StoredHashes(a)

\* C1: every step leaves the cursor unchanged or moves it from c to c + 1;
\* the cursor never decreases and never skips a height.
C1_CursorStep ==
    [][CurrentBlock' = CurrentBlock \/ CurrentBlock' = CurrentBlock + 1]_vars

\* the cursor has advanced twice in a run in which the Chain Client failed
C1_Witness == CurrentBlock >= 2 /\ ~clean

\* C2: whenever the cursor equals c + 1, every transaction of block c + 1 is
\* already stored for every address that was subscribed when it was checked.
C2_RecordingComplete == CurrentBlock >= 1 => Complete(CurrentBlock)

\* the cursor is 1 and tx1 of block 1 is stored for its recipient
C2_Witness ==
    /\ CurrentBlock = 1
    /\ <<"0x123", "0xtx1", TRUE>> \in isSubLog
    /\ "0xtx1" \in StoredHashes("0x123")

\* C3 as stated: the stored sequences hold no transaction of a block above
\* the cursor, and every block whose transactions are visible is complete.
C3_NoHalfProcessedBlock ==
    \A a \in Addresses : \A hash \in StoredHashes(a) :
        /\ HeightOf(hash) <= GetCurrentBlock
        /\ Complete(HeightOf(hash))

\* C3 amended: the stored sequences hold no transaction of a block above
\* cursor + 1, and every block up to the cursor is completely recorded; only
\* block cursor + 1, the one being processed, can be seen partially.
C3_OnlyNextBlockPartial ==
    /\ \A a \in Addresses : \A hash \in StoredHashes(a) :
           HeightOf(hash) <= GetCurrentBlock + 1
    /\ \A h \in 1..CurrentBlock : Complete(h)

\* a query now returns a transaction of block 2 while the cursor is 1 and
\* the recipient of that transaction has not been checked yet
C3_Witness ==
    /\ GetCurrentBlock = 1
    /\ "0xtx3" \in StoredHashes("0x123")
    /\ \A r \in BOOLEAN : <<"0xABCDEF", "0xtx3", r>> \notin isSubLog

\* C4: of all Subscribe(A) calls exactly the first returns true.
C4_SubscribeOnce ==
    \A a \in Addresses : \A i \in 1..Len(subResults[a]) :
        subResults[a][i] = (i = 1)

\* some address was subscribed twice
C4_Witness == \E a \in Addresses : Len(subResults[a]) >= 2

\* C5: an address first subscribed when the cursor was n never holds a
\* transaction of a block of height <= n.
C5_NoBackfill ==
    \A a \in Addresses :
        subscribedAt[a] # -1 =>
            \A hash \in StoredHashes(a) : HeightOf(hash) > subscribedAt[a]

\* 0x123 was subscribed after block 1, which held tx1 for it, and has since
\* received tx3 of block 2
C5_Witness ==
    /\ subscribedAt["0x123"] = 1
    /\ StoredHashes("0x123") = {"0xtx3"}
    /\ CurrentBlock >= 2

\* C6: every transaction stored for address A has A as its from or its to.
C6_FromOrTo ==
    \A a \in DOMAIN transactions : \A i \in 1..Len(transactions[a]) :
        transactions[a][i].from = a \/ transactions[a][i].to = a

\* both addresses of tx1 hold it, one as sender and one as recipient
C6_Witness ==
    /\ "0xtx1" \in StoredHashes("0x123")
    /\ "0xtx1" \in StoredHashes("0xABCDEF")

\* no processNextBlock call is in progress
BetweenCalls ==
    \A s \in Starters : pc[s] \in {"idle", "rejected", "returned", "loop", "sleep"}

\* the transactions of blocks 1..n whose from or to is a, each once, in
\* block order and in-block order
RECURSIVE MatchingUpTo(_, _)
MatchingUpTo(a, n) ==
    IF n = 0 THEN << >>
    ELSE MatchingUpTo(a, n - 1) \o
         SelectSeq(parseTransactions(GetBlockByNumber(n)),
                   LAMBDA t : t.from = a \/ t.to = a)

\* C7: with A subscribed before the first call and a Chain Client that never
\* fails, n processNextBlock calls under tips >= n leave the cursor at n and
\* GetTransactions(A) equal to the matching transactions of blocks 1..n,
\* each once and in order.
C7_DeterministicRun ==
    (clean /\ calls >= 1 /\ BetweenCalls) =>
        /\ GetCurrentBlock = calls
        /\ \A a \in preSub : GetTransactions(a) = MatchingUpTo(a, calls)

\* the iteration that just ended met a Chain Client failure and left the
\* cursor and the stored transactions as they were
C8_NoOp ==
    \A s \in Starters :
        (pc[s] = "sleep" /\ iterFail) =>
            (CurrentBlock = iterStart /\ iterAppends = 0)

\* a block request made after a failed iteration asks for the block of the
\* failed iteration
C8_Retry ==
    \A s \in Starters :
        (pc[s] = "fetch" /\ pc'[s] # "fetch" /\ pendingRetry # 0) =>
            nextBlock[s] = pendingRetry

\* C8: an iteration whose tip query, tip parse or block fetch fails leaves
\* the cursor at c and records nothing, and the next block request is for
\* block c + 1 again.
C8_FailureIsNoOp == []C8_NoOp /\ [][C8_Retry]_vars

\* after a failed iteration the loop is past the tip check again and is
\* about to request the same block, with transactions already stored
C8_Witness ==
    \E s \in Starters :
        /\ pc[s] = "fetch"
        /\ pendingRetry = 2
        /\ nextBlock[s] = 2
        /\ "0xtx1" \in StoredHashes("0x123")

\* the goroutines that got into the ingestion loop
InLoop == {s \in Starters : pc[s] \in LoopPcs \cup {"returned"}}

\* a rejected StartParsing call changes nothing in the Store and stays
\* returned
C9_Rejected ==
    \A s \in Starters :
        /\ (pc[s] = "idle" /\ pc'[s] = "rejected") => UNCHANGED storeVars
        /\ pc[s] = "rejected" => pc'[s] = "rejected"

\* C9: of any number of StartParsing calls at most one runs the ingestion
\* loop; every other call returns without calling processNextBlock and
\* without changing the Store.
C9_SingleLoop == [](Cardinality(InLoop) <= 1) /\ [][C9_Rejected]_vars

\* one call runs the loop and has advanced the cursor, the other was
\* rejected
C9_Witness ==
    \E s, t \in Starters :
        /\ pc[s] = "rejected"
        /\ pc[t] \in LoopPcs
        /\ CurrentBlock >= 1

\* once the context is done the top of the loop starts no iteration
C10_NoNewIteration ==
    \A s \in Starters :
        (ctxDone[s] /\ pc[s] = "loop") => pc'[s] \in {"loop", "returned"}

\* C10: after cancellation the loop starts no new iteration and eventually
\* returns, and the cursor advances at most once more.
C10_Cancellation ==
    /\ [](advAfterCancel <= 1)
    /\ [][C10_NoNewIteration]_vars
    /\ \A s \in Starters :
           (ctxDone[s] /\ pc[s] \in LoopPcs) ~> (pc[s] = "returned")

\* the loop has returned and the iteration in flight at the cancellation
\* advanced the cursor
C10_Witness ==
    \E s \in Starters : pc[s] = "returned" /\ advAfterCancel = 1

(***************************************************************************)
(* C11 - every field of the Store is guarded by one reader/writer lock:    *)
(* while a goroutine writes the cursor, the subscription set or the        *)
(* transaction sequences, no other goroutine reads or writes that field,   *)
(* whoever calls the Store and however.                                    *)
(***************************************************************************)
CursorReaders ==
    {s \in Starters : heldAt[s] = "getCurrent"} \cup
    {d \in Callers : dpc[d].op = "GetCurrentBlock"}

CursorWriters == {s \in Starters : heldAt[s] = "setBlock"}

SubscribedReaders ==
    {s \in Starters : heldAt[s] \in {"isSubFrom", "isSubTo", "addFrom", "addTo"}}

SubscribedWriters == {d \in Callers : dpc[d].op = "Subscribe"}

TransactionsReaders == {d \in Callers : dpc[d].op = "GetTransactions"}

TransactionsWriters ==
    {s \in Starters : heldAt[s] \in {"addFrom", "addTo"}} \cup
    {d \in Callers : dpc[d].op = "Subscribe"}

NoRace(readers, writers) ==
    \A w \in writers : (readers \cup writers) \ {w} = {}

C11_StoreGuarded ==
    /\ NoRace(CursorReaders, CursorWriters)
    /\ NoRace(SubscribedReaders, SubscribedWriters)
    /\ NoRace(TransactionsReaders, TransactionsWriters)

(***************************************************************************)
(* C16 - the loop holds neither p.mu nor m.mu when it calls BlockNumber()  *)
(* or GetBlockByNumber() and when it sleeps, so a caller of Subscribe or   *)
(* of a query finds the locks free meanwhile.                              *)
(***************************************************************************)
WaitPcs == {"blockNumber", "fetch", "sleep"}

Holds(t) == pmu.w = t \/ t \in pmu.r \/ mmu.w = t \/ t \in mmu.r

C16_Waits ==
    \A s \in Starters :
        (pc[s] \in WaitPcs /\ pc'[s] # pc[s]) => ~Holds(s) /\ ~Holds(s)'

C16_NoLockWhileWaiting == [][C16_Waits]_vars

\* a Subscribe runs inside MemoryStore.mu while the loop is about to wait
C16_Witness ==
    \E s \in Starters : \E d \in Callers :
        /\ pc[s] \in WaitPcs
        /\ heldAt[s] = "none"
        /\ dpc[d].op = "Subscribe"
        /\ mmu.w = d
        /\ CurrentBlock >= 1

(***************************************************************************)
(* C12 - the sequence of an address is append-only: what GetTransactions   *)
(* returns for an address before a step is a prefix of what it returns     *)
(* after the step, hence of what every later call returns.                 *)
(***************************************************************************)
IsPrefix(p, q) == Len(p) <= Len(q) /\ SubSeq(q, 1, Len(p)) = p

C12_Grows == \A a \in Addresses : IsPrefix(GetTransactions(a), GetTransactions(a)')

C12_AppendOnly == [][C12_Grows]_vars

\* an address has three stored transactions and was subscribed twice
C12_Witness ==
    \E a \in Addresses :
        Len(GetTransactions(a)) >= 3 /\ Len(subResults[a]) = 2

(***************************************************************************)
(* C13 - Subscribe of an address that is already subscribed leaves the     *)
(* Store as it is: the address stays subscribed and its sequence is kept.  *)
(***************************************************************************)
C13_Resubscribe ==
    \A a \in Addresses :
        (IsSubscribed(a) /\ Len(subResults'[a]) > Len(subResults[a]))
            => UNCHANGED storeVars

C13_ResubscribeKeeps == [][C13_Resubscribe]_vars

\* the second Subscribe of an address answered false, and the address has
\* transactions
C13_Witness ==
    \E a \in Addresses :
        /\ Len(subResults[a]) = 2
        /\ ~subResults[a][2]
        /\ Len(GetTransactions(a)) = 2

(***************************************************************************)
(* C17 - when IsSubscribed(addr) answered true in storeTransactions, the   *)
(* AddTransaction(addr, tx) that follows appends tx to the sequence of     *)
(* addr, whatever Subscribe calls ran between the two.                     *)
(***************************************************************************)
Appended(a, tx) ==
    /\ a \in DOMAIN transactions'
    /\ transactions'[a] = Append(GetTransactions(a), tx)

C17_Add ==
    \A s \in Starters :
        /\ (pc[s] = "addFrom" /\ pc'[s] # "addFrom")
               => Appended(CurTx(s).from, CurTx(s))
        /\ (pc[s] = "addTo" /\ pc'[s] # "addTo")
               => Appended(CurTx(s).to, CurTx(s))

C17_CheckThenAppend == [][C17_Add]_vars

\* the loop is between a check that answered true and its append, and the
\* address has been subscribed a second time
C17_Witness ==
    \E s \in Starters :
        /\ pc[s] = "addTo"
        /\ Len(subResults[CurTx(s).to]) = 2
        /\ subCalls = 2

(***************************************************************************)
(* C19 - the height stored in a Transaction is the number the fetched      *)
(* block reports about itself, 0 when that number does not parse; such a   *)
(* block is indexed all the same and the cursor moves to its height.       *)
(***************************************************************************)
ReportedHeight(hash) ==
    LET n == hexToInt64(Chain[HeightOf(hash)].number) IN
    IF n.err THEN 0 ELSE n.val

Unparsable(h) == h \in 1..Len(Chain) /\ hexToInt64(Chain[h].number).err

C19_Stored ==
    /\ \A a \in DOMAIN transactions :
          \A i \in 1..Len(transactions[a]) :
              transactions[a][i].block = ReportedHeight(transactions[a][i].hash)
    /\ \A h \in 1..Len(Chain) :
          (Unparsable(h) /\ CurrentBlock >= h) => Complete(h)

C19_Advance ==
    \A s \in Starters :
        (pc[s] = "setBlock" /\ pc'[s] # "setBlock" /\ Unparsable(nextBlock[s]))
            => CurrentBlock' = currentBlock[s] + 1

C19_SelfReportedHeight == []C19_Stored /\ [][C19_Advance]_vars

\* block 4, whose number does not parse, is indexed with height 0 and the
\* cursor is 4
C19_Witness ==
    /\ CurrentBlock = 4
    /\ Unparsable(4)
    /\ \E a \in DOMAIN transactions :
          \E i \in 1..Len(transactions[a]) :
              /\ HeightOf(transactions[a][i].hash) = 4
              /\ transactions[a][i].block = 0

(***************************************************************************)
(* C20 - no sequence holds the same transaction twice, a transaction whose *)
(* from and to are the same subscribed address included.                   *)
(***************************************************************************)
C20_NoDuplicate ==
    \A a \in DOMAIN transactions :
        \A i, j \in 1..Len(transactions[a]) :
            i # j => transactions[a][i].hash # transactions[a][j].hash

(***************************************************************************)
(* C18 - the cursor never exceeds the highest tip BlockNumber() has        *)
(* reported so far, and an iteration that read cursor c and tip h with     *)
(* c >= h goes to sleep without fetching a block or changing the Store.    *)
(***************************************************************************)
C18_AtTip ==
    \A s \in Starters :
        (/\ pc[s] = "blockNumber"
         /\ pc'[s] # "blockNumber"
         /\ lastTip' >= 0
         /\ currentBlock[s] >= lastTip')
            => pc'[s] = "sleep" /\ UNCHANGED storeVars

C18_CursorBelowTip == [](CurrentBlock <= maxTip) /\ [][C18_AtTip]_vars

\* the cursor has caught up with the highest tip, and the last tip reported
\* was below the cursor
C18_Witness ==
    /\ CurrentBlock = maxTip
    /\ CurrentBlock >= 2
    /\ lastTip >= 0
    /\ lastTip < CurrentBlock
    /\ \E s \in Starters : pc[s] = "sleep"

(***************************************************************************)
(* C14 - GetCurrentBlock, IsSubscribed and GetTransactions, and a write of *)
(* the caller into the list it was given, leave the Store and the loop as  *)
(* they are; so after n calls of processNextBlock the Store holds what the *)
(* blocks 1..n and the subscriptions give, whatever queries ran meanwhile. *)
(***************************************************************************)
\* what storeTransactions stores for address a from the list ts: each
\* transaction once for its from and once for its to
RECURSIVE StoredFrom(_, _)
StoredFrom(a, ts) ==
    IF ts = << >> THEN << >>
    ELSE (IF Head(ts).from = a THEN <<Head(ts)>> ELSE << >>) \o
         (IF Head(ts).to = a THEN <<Head(ts)>> ELSE << >>) \o
         StoredFrom(a, Tail(ts))

RECURSIVE StoredUpTo(_, _)
StoredUpTo(a, n) ==
    IF n = 0 THEN << >>
    ELSE StoredUpTo(a, n - 1) \o StoredFrom(a, parseTransactions(GetBlockByNumber(n)))

C14_QueryStep == rd' # rd => UNCHANGED <<storeVars, parseRunning, loopVars>>

C14_Outcome ==
    (clean /\ calls >= 1 /\ BetweenCalls) =>
        /\ CurrentBlock = calls
        /\ \A a \in preSub : a \in DOMAIN transactions
                                /\ transactions[a] = StoredUpTo(a, calls)

C15_NoEmptyAddress ==
    /\ (http.decoded /\ http.given = "") => (http.status = 400 /\ http.called = "")
    /\ http.called \in {"Subscribe", "GetTransactions"} => http.address # ""
    /\ "" \notin subscribed
    /\ "" \notin DOMAIN transactions

\* POST /subscribe without an address was answered 400 after an address was
\* subscribed and a block was indexed
C15_Witness ==
    /\ http.path = "/subscribe"
    /\ http.decoded
    /\ http.given = ""
    /\ http.status = 400
    /\ subscribed # {}
    /\ CurrentBlock >= 1

(***************************************************************************)
(* C21 - parseRunning is set when the loop starts and never cleared: once  *)
(* the loop has returned after a cancellation, a StartParsing call with a  *)
(* fresh context is rejected like a second start, and the cursor does not  *)
(* move any more.                                                          *)
(***************************************************************************)
HasReturned == \E s \in Starters : pc[s] = "returned"

C21_Set ==
    (\E s \in Starters : pc[s] \in LoopPcs \cup {"returned"}) => parseRunning

C21_Step ==
    /\ parseRunning => parseRunning'
    /\ \A t \in Starters :
          (HasReturned /\ pc[t] = "idle" /\ pc'[t] # "idle")
              => pc'[t] = "rejected" /\ UNCHANGED storeVars
    /\ HasReturned => CurrentBlock' = CurrentBlock

C21_NeverRestarts == []C21_Set /\ [][C21_Step]_vars

\* the loop has returned with the cursor advanced, and the StartParsing
\* call made afterwards with an uncancelled context was rejected
C21_Witness ==
    /\ pc[MainLoop] = "returned"
    /\ CurrentBlock >= 1
    /\ \E t \in Starters : pc[t] = "rejected" /\ ~ctxDone[t]

====
